---- MODULE Spec2Model ----
(***************************************************************************)
(* Polling / allocation control loop of the train ticket finder:           *)
(* SearchManager (search loop), TrainAPI (client), SeatAllocationManager   *)
(* (tracker) and the parts of UIManager the loop calls into.               *)
(*                                                                         *)
(* JavaScript runs handlers to completion: every action below is one task  *)
(* of the event loop, from its entry (a click, a timer tick, a network     *)
(* response, a sleep ending) up to the next await that really suspends     *)
(* (sleep or fetch).  A coroutine suspended at such an await is a record   *)
(* in one of the pools checks / allocs / releases.                         *)
(***************************************************************************)
EXTENDS Integers, Sequences, FiniteSets, TLC

(* ------------------------------- bounds -------------------------------- *)

\* most poll timers armed at the same time (setInterval handles alive)
MaxTimers == 2
\* most checkAvailability calls suspended at the same time
MaxChecks == 2
\* most checkAndAllocateFirstSeat calls suspended at the same time
MaxAllocs == 2
\* most releaseSeat calls suspended at the same time
MaxReleases == 1

(* ------------------------------ null values ---------------------------- *)

\* JavaScript null for object-valued fields
NULL == [null |-> TRUE]
\* null for a timer handle (setInterval returns positive integers)
NoHandle == 0

(* --------------------------- static catalog ---------------------------- *)

CabinKeys == <<"ECONOMY", "BUSINESS", "SLEEPER", "COUCHETTE", "LOCA", "DISABLED">>

CabinClassId(key) ==
    CASE key = "ECONOMY"   -> 2
      [] key = "BUSINESS"  -> 1
      [] key = "SLEEPER"   -> 3
      [] key = "COUCHETTE" -> 6
      [] key = "LOCA"      -> 11
      [] key = "DISABLED"  -> 12

\* Object.keys(CONFIG.CABIN_CLASSES).find(key => ...id === id); "" when none
CabinKeyOfId(id) ==
    LET hits == {i \in 1..Len(CabinKeys) : CabinClassId(CabinKeys[i]) = id}
    IN  IF hits = {} THEN ""
        ELSE CabinKeys[CHOOSE i \in hits : \A j \in hits : i <= j]

SeqContains(s, x) == \E i \in 1..Len(s) : s[i] = x

(* ------------------------------ utils.js ------------------------------- *)

\* "HH:MM" strings are modelled by their four digits <<H,H,M,M>>; a timestamp
\* is a number of minutes since local midnight.  The empty string is <<>>.
formatTime(timestamp) ==
    LET h == (timestamp \div 60) % 24
        m == timestamp % 60
    IN  <<h \div 10, h % 10, m \div 10, m % 10>>

\* JavaScript string comparison a <= b: first differing character decides,
\* a proper prefix is smaller.
RECURSIVE StrLeq(_, _)
StrLeq(a, b) ==
    IF a = <<>> THEN TRUE
    ELSE IF b = <<>> THEN FALSE
    ELSE IF Head(a) < Head(b) THEN TRUE
    ELSE IF Head(a) > Head(b) THEN FALSE
    ELSE StrLeq(Tail(a), Tail(b))

\* isInTimeRange without the upper bound
isInTimeRangeNoEnd(trainTime, startTime, endTime) ==
    StrLeq(startTime, formatTime(trainTime))

isInTimeRange(trainTime, startTime, endTime) ==
    LET trainHourMin == formatTime(trainTime)
    IN  StrLeq(startTime, trainHourMin) /\ StrLeq(trainHourMin, endTime)

\* "YYYY-MM-DD" is modelled by its three parts <<year, month, day>>
convertDateToAPI(dateString) ==
    IF dateString = <<>> THEN <<>>
    ELSE <<dateString[3], dateString[2], dateString[1]>>

\* convertDateFromAPI that returns its argument
convertDateFromAPISame(dateString) == dateString

\* "DD-MM-YYYY" is modelled by its three parts <<day, month, year>>
convertDateFromAPI(dateString) ==
    IF dateString = <<>> THEN <<>>
    ELSE <<dateString[3], dateString[2], dateString[1]>>

(* --------------------------- the search form --------------------------- *)

\* the day the page runs on
Today == <<2026, 1, 10>>

\* new Date(dateValue) < today
DateBefore(a, b) ==
    \/ a[1] < b[1]
    \/ a[1] = b[1] /\ a[2] < b[2]
    \/ a[1] = b[1] /\ a[2] = b[2] /\ a[3] < b[3]

\* station 0 stands for the "-- choose a station --" option (empty value)
FormOK1 ==
    [dep |-> 1, arr |-> 2, date |-> <<2026, 1, 11>>,
     timeStart |-> <<0, 8, 0, 0>>, timeEnd |-> <<1, 2, 0, 0>>,
     classes |-> <<"ECONOMY">>]

\* the same journey a day later
FormOK2 == [FormOK1 EXCEPT !.date = <<2026, 1, 12>>]

FormSameStation == [FormOK1 EXCEPT !.arr = 1]

\* what the user can have in the form
FormValues == {FormOK1, FormSameStation}

\* UIManager.getSearchParams: the parameters, or NULL with an error status
getSearchParams(f) ==
    IF f.dep = 0 \/ f.arr = 0 THEN NULL
    ELSE IF f.dep = f.arr THEN NULL
    ELSE IF f.date = <<>> THEN NULL
    ELSE IF DateBefore(f.date, Today) THEN NULL
    ELSE IF f.timeStart = <<>> \/ f.timeEnd = <<>> THEN NULL
    ELSE IF ~StrLeq(f.timeStart, f.timeEnd) THEN NULL
    ELSE IF f.classes = <<>> THEN NULL
    ELSE [departureStationId |-> f.dep,
          arrivalStationId |-> f.arr,
          departureDate |-> convertDateToAPI(f.date),
          timeStart |-> f.timeStart,
          timeEnd |-> f.timeEnd,
          selectedCabinClasses |-> f.classes]

(* ------------------------ availability responses ----------------------- *)

\* a cabinClassAvailabilities entry
Cabin(id, count) == [hasCabinClass |-> TRUE, cabinClassId |-> id, availabilityCount |-> count]

\* a train of the response: one segment, departing and arriving at the given minutes
Train(id, dep, arr, cabins) ==
    [id |-> id, name |-> id,
     segments |-> <<[departureTime |-> dep, arrivalTime |-> arr]>>,
     hasCabins |-> TRUE, cabinClassAvailabilities |-> cabins]

\* 09:15, economy 3 and business 5
TrainA == Train(101, 555, 700, <<Cabin(2, 3), Cabin(1, 5)>>)
\* 10:30, economy sold out, business 5
TrainB == Train(102, 630, 800, <<Cabin(2, 0), Cabin(1, 5)>>)
\* 13:00, outside 08:00-12:00
TrainC == Train(103, 780, 900, <<Cabin(2, 4)>>)
\* 12:00 exactly, a class the catalog does not know and economy 1
TrainD == Train(104, 720, 860, <<Cabin(99, 7), Cabin(2, 1)>>)
\* no segments
TrainE == [TrainA EXCEPT !.id = 105, !.name = 105, !.segments = <<>>]

\* data.trainLegs[0].trainAvailabilities, each with its trains
Response(groups) == [hasLegs |-> TRUE, trainAvailabilities |-> groups]

\* what the availability endpoint can answer with status 200
Responses ==
    { [hasLegs |-> FALSE, trainAvailabilities |-> <<>>],
      Response(<<<<TrainE, TrainB>>>>),
      Response(<<<<TrainC, TrainB>>, <<TrainD, TrainA>>>>) }

(* --------------------------- the result filter ------------------------- *)

RECURSIVE processCabins(_, _)
\* the loop of processTrainAvailability over train.cabinClassAvailabilities
processCabins(avails, selectedCabinClasses) ==
    IF avails = <<>> THEN <<>>
    ELSE LET classAvail == Head(avails)
             rest == processCabins(Tail(avails), selectedCabinClasses)
             cabinKey == CabinKeyOfId(classAvail.cabinClassId)
         IN  IF ~classAvail.hasCabinClass THEN rest
             ELSE IF cabinKey = "" THEN rest
             ELSE <<[classKey |-> cabinKey,
                     availability |-> classAvail.availabilityCount,
                     isSelected |-> SeqContains(selectedCabinClasses, cabinKey)]>>
                  \o rest

\* SearchManager.processTrainAvailability: the train's info, or NULL
processTrainAvailability(train, timeStart, timeEnd, selectedCabinClasses) ==
    IF train.segments = <<>> THEN NULL
    ELSE IF ~isInTimeRange(train.segments[1].departureTime, timeStart, timeEnd) THEN NULL
    ELSE IF ~train.hasCabins THEN NULL
    ELSE LET cabinClasses == processCabins(train.cabinClassAvailabilities, selectedCabinClasses)
         IN  IF cabinClasses = <<>> THEN NULL
             ELSE [trainId |-> train.id,
                   name |-> train.name,
                   departureTime |-> formatTime(train.segments[1].departureTime),
                   arrivalTime |-> formatTime(train.segments[Len(train.segments)].arrivalTime),
                   cabinClasses |-> cabinClasses]

RECURSIVE SelectedSeatsAll(_)
\* the sum of availability over all classes of a train, selected or not
SelectedSeatsAll(cabinClasses) ==
    IF cabinClasses = <<>> THEN 0
    ELSE Head(cabinClasses).availability + SelectedSeatsAll(Tail(cabinClasses))

RECURSIVE SelectedSeats(_)
\* cabinClasses.filter(isSelected).reduce(sum of availability)
SelectedSeats(cabinClasses) ==
    IF cabinClasses = <<>> THEN 0
    ELSE (IF Head(cabinClasses).isSelected THEN Head(cabinClasses).availability ELSE 0)
         + SelectedSeats(Tail(cabinClasses))

\* hasAvailableSeatsInSelectedClasses that counts unselected classes too
hasAvailableSeatsInAnyClass(trainInfo) ==
    \E i \in 1..Len(trainInfo.cabinClasses) : trainInfo.cabinClasses[i].availability > 0

hasAvailableSeatsInSelectedClasses(trainInfo) ==
    \E i \in 1..Len(trainInfo.cabinClasses) :
        trainInfo.cabinClasses[i].availability > 0 /\ trainInfo.cabinClasses[i].isSelected

RECURSIVE Flatten(_)
\* the trains of all trainAvailabilities, in the order the two loops visit them
Flatten(groups) ==
    IF groups = <<>> THEN <<>> ELSE Head(groups) \o Flatten(Tail(groups))

RECURSIVE processTrainsListAll(_, _, _, _)
\* processTrainData that lists, and reports as found, every train that has info
processTrainsListAll(trains, timeStart, timeEnd, selectedCabinClasses) ==
    IF trains = <<>> THEN [found |-> FALSE, trains |-> <<>>, totalSeats |-> 0]
    ELSE LET trainInfo == processTrainAvailability(Head(trains), timeStart, timeEnd,
                                                   selectedCabinClasses)
             rest == processTrainsListAll(Tail(trains), timeStart, timeEnd,
                                          selectedCabinClasses)
         IN  IF trainInfo # NULL
             THEN [found |-> TRUE,
                   trains |-> <<trainInfo>> \o rest.trains,
                   totalSeats |-> SelectedSeats(trainInfo.cabinClasses) + rest.totalSeats]
             ELSE rest

RECURSIVE processTrains(_, _, _, _)
\* the body of the forEach of processTrainData, folded over the trains
processTrains(trains, timeStart, timeEnd, selectedCabinClasses) ==
    IF trains = <<>> THEN [found |-> FALSE, trains |-> <<>>, totalSeats |-> 0]
    ELSE LET trainInfo == processTrainAvailability(Head(trains), timeStart, timeEnd,
                                                   selectedCabinClasses)
             rest == processTrains(Tail(trains), timeStart, timeEnd, selectedCabinClasses)
         IN  IF trainInfo # NULL /\ hasAvailableSeatsInSelectedClasses(trainInfo)
             THEN [found |-> TRUE,
                   trains |-> <<trainInfo>> \o rest.trains,
                   totalSeats |-> SelectedSeats(trainInfo.cabinClasses) + rest.totalSeats]
             ELSE rest

\* SearchManager.processTrainData
processTrainData(data, timeStart, timeEnd, selectedCabinClasses) ==
    IF ~data.hasLegs THEN [found |-> FALSE, trains |-> <<>>, totalSeats |-> 0]
    ELSE processTrains(Flatten(data.trainAvailabilities), timeStart, timeEnd,
                       selectedCabinClasses)

RECURSIVE AvailableInCabins(_)
\* the inner forEach of handleTicketsFound
AvailableInCabins(cabinClasses) ==
    IF cabinClasses = <<>> THEN 0
    ELSE (IF Head(cabinClasses).isSelected /\ Head(cabinClasses).availability > 0
          THEN Head(cabinClasses).availability ELSE 0)
         + AvailableInCabins(Tail(cabinClasses))

RECURSIVE actualAvailableSeats(_)
\* the count handleTicketsFound makes over result.trains
actualAvailableSeats(trains) ==
    IF trains = <<>> THEN 0
    ELSE AvailableInCabins(Head(trains).cabinClasses) + actualAvailableSeats(Tail(trains))

(* ----------------------- seat maps and the locator ---------------------- *)

\* an entry of seatMapTemplate.seatMaps; seatNumber "" is a missing number
SeatItem(saleable, cabinClassId, seatNumber) ==
    [saleable |-> saleable, cabinClassId |-> cabinClassId, seatNumber |-> seatNumber]

\* an entry of seatMaps: one car, its template items and its held seats
Car(trainCarId, items, allocationSeats) ==
    [trainCarId |-> trainCarId, hasTemplate |-> TRUE, items |-> items,
     allocationSeats |-> allocationSeats]

\* car 11: a toilet, 5A held, 5B free (economy); car 12: 5A free (business)
SeatMapFree ==
    [hasSeatMaps |-> TRUE,
     seatMaps |-> <<Car(11, <<SeatItem(FALSE, 2, "WC"), SeatItem(TRUE, 2, "5A"),
                             SeatItem(TRUE, 2, "5B")>>, <<"5A">>),
                    Car(12, <<SeatItem(TRUE, 1, "5A")>>, <<>>)>>]

\* the only economy seat is held
SeatMapFull ==
    [hasSeatMaps |-> TRUE,
     seatMaps |-> <<Car(11, <<SeatItem(TRUE, 2, "5A"), SeatItem(TRUE, 2, "")>>, <<"5A">>)>>]

\* what checkSeatMap can return: null on any failure, else the body
SeatMapOutcomes ==
    {NULL, [hasSeatMaps |-> FALSE, seatMaps |-> <<>>], SeatMapFree, SeatMapFull}

RECURSIVE MapCabinIds(_)
\* selectedCabinClasses.map(key => CONFIG.CABIN_CLASSES[key]?.id)
MapCabinIds(keys) ==
    IF keys = <<>> THEN {} ELSE {CabinClassId(Head(keys))} \cup MapCabinIds(Tail(keys))

RECURSIVE ScanItemsIgnoreHeld(_, _, _, _)
\* the inner loop of findFirstAvailableSeat without the check of the held seats
ScanItemsIgnoreHeld(items, trainCarId, occupiedSeats, selectedCabinClassIds) ==
    IF items = <<>> THEN NULL
    ELSE LET seatItem == Head(items)
             rest == ScanItemsIgnoreHeld(Tail(items), trainCarId, occupiedSeats,
                                         selectedCabinClassIds)
         IN  IF ~seatItem.saleable THEN rest
             ELSE IF seatItem.cabinClassId \notin selectedCabinClassIds THEN rest
             ELSE IF seatItem.seatNumber = "" THEN rest
             ELSE [trainCarId |-> trainCarId,
                   seatNumber |-> seatItem.seatNumber,
                   cabinClassId |-> seatItem.cabinClassId]

RECURSIVE ScanItems(_, _, _, _)
\* the inner loop of findFirstAvailableSeat over one car's template items
ScanItems(items, trainCarId, occupiedSeats, selectedCabinClassIds) ==
    IF items = <<>> THEN NULL
    ELSE LET seatItem == Head(items)
             rest == ScanItems(Tail(items), trainCarId, occupiedSeats, selectedCabinClassIds)
         IN  IF ~seatItem.saleable THEN rest
             ELSE IF seatItem.cabinClassId \notin selectedCabinClassIds THEN rest
             ELSE IF seatItem.seatNumber = "" THEN rest
             ELSE IF seatItem.seatNumber \in occupiedSeats THEN rest
             ELSE [trainCarId |-> trainCarId,
                   seatNumber |-> seatItem.seatNumber,
                   cabinClassId |-> seatItem.cabinClassId]

RECURSIVE ScanCarsLast(_, _)
\* the outer loop of findFirstAvailableSeat preferring the seat of a later car
ScanCarsLast(seatMaps, selectedCabinClassIds) ==
    IF seatMaps = <<>> THEN NULL
    ELSE LET seatMap == Head(seatMaps)
             occupiedSeats == {seatMap.allocationSeats[i] : i \in 1..Len(seatMap.allocationSeats)}
                              \ {""}
             hit == IF seatMap.hasTemplate
                    THEN ScanItems(seatMap.items, seatMap.trainCarId, occupiedSeats,
                                   selectedCabinClassIds)
                    ELSE NULL
             rest == ScanCarsLast(Tail(seatMaps), selectedCabinClassIds)
         IN  IF rest # NULL THEN rest ELSE hit

RECURSIVE ScanCars(_, _)
\* the outer loop of findFirstAvailableSeat over the seat maps
ScanCars(seatMaps, selectedCabinClassIds) ==
    IF seatMaps = <<>> THEN NULL
    ELSE LET seatMap == Head(seatMaps)
             occupiedSeats == {seatMap.allocationSeats[i] : i \in 1..Len(seatMap.allocationSeats)}
                              \ {""}
             hit == IF seatMap.hasTemplate
                    THEN ScanItems(seatMap.items, seatMap.trainCarId, occupiedSeats,
                                   selectedCabinClassIds)
                    ELSE NULL
         IN  IF hit # NULL THEN hit ELSE ScanCars(Tail(seatMaps), selectedCabinClassIds)

\* SeatAllocationManager.findFirstAvailableSeat
findFirstAvailableSeat(seatMaps, selectedCabinClasses) ==
    ScanCars(seatMaps, MapCabinIds(selectedCabinClasses))

\* what allocateSeat can return: null on any failure, else the body; allocationId 0
\* and lockFor 0 stand for a missing field
AllocateOutcomes ==
    {NULL,
     [allocationId |-> 0, lockFor |-> 0],
     [allocationId |-> 1, lockFor |-> 0],
     [allocationId |-> 2, lockFor |-> 15]}

\* lockFor || 10
DefaultLockFor == 10

(* -------------------------------- state -------------------------------- *)

VARIABLES
    isSearching,        \* SearchManager.isSearching
    searchInterval,     \* SearchManager.searchInterval: a handle or NoHandle
    isFirstRequest,     \* SearchManager.isFirstRequest
    pollTimers,         \* handles of the poll intervals the browser has armed
    form,               \* what the search form holds
    isLoading,          \* TrainAPI.isLoading
    allocatedSeat,      \* SeatAllocationManager.allocatedSeat: an allocation or NULL
    checks,             \* checkAvailability calls suspended at sleep or fetch
    allocs,             \* checkAndAllocateFirstSeat calls suspended at a fetch
    releases,           \* releaseSeat calls suspended at the deallocate fetch
    countdownInterval,  \* UIManager.countdownInterval: a handle or NoHandle
    countdownTimers,    \* handles of the countdown intervals the browser has armed
    status,             \* the status line: category of the last updateStatus
    step,               \* the last task run: its handler, what it notified, the
                        \* requests it sent and what the called operation returned
    session,            \* history of the current session: the criteria the form held
                        \* when startSearch began it, and whether one of its polls
                        \* has called checkAvailability yet
    filterArgs,         \* arguments of a direct call of processTrainData, or NULL
    filterResult,       \* what that call returned, or NULL before it ran
    secondsLeft,        \* secondsLeft of the live countdown's updateTimer closure
    callArgs,           \* arguments of a direct call of a helper or client
                        \* operation, or NULL
    callResult          \* what that call returned, or NULL before it ran

vars == <<isSearching, searchInterval, isFirstRequest, pollTimers, form, isLoading,
          allocatedSeat, checks, allocs, releases, countdownInterval, countdownTimers,
          status, step, session, filterArgs, filterResult, secondsLeft, callArgs,
          callResult>>

\* the state as one record, so that a handler is a function from state to state
Cur ==
    [isSearching |-> isSearching, searchInterval |-> searchInterval,
     isFirstRequest |-> isFirstRequest, pollTimers |-> pollTimers, form |-> form,
     isLoading |-> isLoading, allocatedSeat |-> allocatedSeat, checks |-> checks,
     allocs |-> allocs, releases |-> releases, countdownInterval |-> countdownInterval,
     countdownTimers |-> countdownTimers, status |-> status, step |-> step,
     session |-> session, filterArgs |-> filterArgs, filterResult |-> filterResult,
     secondsLeft |-> secondsLeft, callArgs |-> callArgs, callResult |-> callResult]

\* the state a handler named op starts from
Begin(op) ==
    [Cur EXCEPT !.step = [op |-> op, notes |-> <<>>, sent |-> <<>>, ret |-> "none"],
                !.callResult = NULL]

\* the model's caps on timers and suspended calls
WithinBounds(t) ==
    /\ Cardinality(t.pollTimers) <= MaxTimers
    /\ Len(t.checks) <= MaxChecks
    /\ Len(t.allocs) <= MaxAllocs
    /\ Len(t.releases) <= MaxReleases

\* the handler ends in state t
Set(t) ==
    /\ WithinBounds(t)
    /\ isSearching' = t.isSearching
    /\ searchInterval' = t.searchInterval
    /\ isFirstRequest' = t.isFirstRequest
    /\ pollTimers' = t.pollTimers
    /\ form' = t.form
    /\ isLoading' = t.isLoading
    /\ allocatedSeat' = t.allocatedSeat
    /\ checks' = t.checks
    /\ allocs' = t.allocs
    /\ releases' = t.releases
    /\ countdownInterval' = t.countdownInterval
    /\ countdownTimers' = t.countdownTimers
    /\ status' = t.status
    /\ step' = t.step
    /\ session' = t.session
    /\ filterArgs' = t.filterArgs
    /\ filterResult' = t.filterResult
    /\ secondsLeft' = t.secondsLeft
    /\ callArgs' = t.callArgs
    /\ callResult' = t.callResult

RemoveAt(q, i) == SubSeq(q, 1, i - 1) \o SubSeq(q, i + 1, Len(q))

\* setInterval: a handle no armed timer has
NewHandle(armed) == CHOOSE h \in 1..(Cardinality(armed) + 1) : h \notin armed

Init ==
    /\ isSearching = FALSE
    /\ searchInterval = NoHandle
    /\ isFirstRequest = TRUE
    /\ pollTimers = {}
    /\ form \in FormValues
    /\ isLoading = FALSE
    /\ allocatedSeat = NULL
    /\ checks = <<>>
    /\ allocs = <<>>
    /\ releases = <<>>
    /\ countdownInterval = NoHandle
    /\ countdownTimers = {}
    /\ status = "waiting"
    /\ step = [op |-> "load", notes |-> <<>>, sent |-> <<>>, ret |-> "none"]
    /\ session = [criteria |-> NULL, called |-> FALSE]
    /\ filterArgs = NULL
    /\ filterResult = NULL
    /\ secondsLeft = 0
    /\ callArgs = NULL
    /\ callResult = NULL

\* SeatAllocationManager.hasAllocatedSeat and clearAllocation, which the page's
\* callbacks below call
hasAllocatedSeat(s) == s.allocatedSeat # NULL

clearAllocation(s) == [s EXCEPT !.allocatedSeat = NULL]

(* ------------------------------- UIManager ----------------------------- *)

updateStatus(s, type) ==
    [s EXCEPT !.status = type, !.step.notes = Append(@, type)]

addLog(s, message) ==
    [s EXCEPT !.step.notes = Append(@, message)]

\* UIManager.hideAllocatedSeat; the closure of a cleared countdown is unreachable,
\* which the model shows as secondsLeft = 0
hideAllocatedSeat(s) ==
    IF s.countdownInterval # NoHandle
    THEN [s EXCEPT !.countdownTimers = @ \ {s.countdownInterval},
                   !.countdownInterval = NoHandle,
                   !.secondsLeft = 0]
    ELSE s

\* seconds in a minute of the hold duration
SecondsPerMinute == 60

\* updateTimer that lets the countdown run one second past zero
updateTimerLate(s) ==
    IF s.secondsLeft < 0
    THEN LET s1 == [s EXCEPT !.countdownTimers = @ \ {s.countdownInterval}]
         IN  hideAllocatedSeat(clearAllocation(addLog(s1, "log:expired")))
    ELSE [s EXCEPT !.secondsLeft = @ - 1]

\* updateTimer, the callback of the countdown: at zero the countdown is cleared,
\* the expiry is logged and the Allocation is dropped locally
updateTimer(s) ==
    IF s.secondsLeft <= 0
    THEN LET s1 == [s EXCEPT !.countdownTimers = @ \ {s.countdownInterval}]
         IN  hideAllocatedSeat(clearAllocation(addLog(s1, "log:expired")))
    ELSE [s EXCEPT !.secondsLeft = @ - 1]

\* UIManager.showAllocatedSeat: restart the countdown for the shown seat, update it
\* at once and then every second
showAllocatedSeat(s, seatInfo) ==
    LET s1 == IF s.countdownInterval # NoHandle
              THEN [s EXCEPT !.countdownTimers = @ \ {s.countdownInterval}]
              ELSE s
        s2 == updateTimer([s1 EXCEPT !.secondsLeft = seatInfo.lockFor * SecondsPerMinute])
        h == NewHandle(s2.countdownTimers)
    IN  IF seatInfo = NULL THEN s
        ELSE [s2 EXCEPT !.countdownInterval = h, !.countdownTimers = @ \cup {h}]

(* -------------------------- SeatAllocationManager ---------------------- *)

\* checkAndAllocateFirstSeat up to its first suspension: the seat-map request
checkAndAllocateFirstSeat(s, trainInfo, searchParams) ==
    [s EXCEPT !.allocs = Append(@, [pc |-> "seatMap", trainInfo |-> trainInfo,
                                    searchParams |-> searchParams, seat |-> NULL]),
              !.step.sent = Append(@, "seatMap"),
              !.step.ret = "pending"]

\* checkAndAllocateFirstSeat resumed with the seat map: steps 1 and 2, then the
\* allocate request
allocateAfterSeatMap(s, i, seatMapData) ==
    LET call == s.allocs[i]
        seatToAllocate ==
            IF seatMapData = NULL \/ ~seatMapData.hasSeatMaps THEN NULL
            ELSE findFirstAvailableSeat(seatMapData.seatMaps,
                                        call.searchParams.selectedCabinClasses)
    IN  IF seatMapData = NULL \/ ~seatMapData.hasSeatMaps
        THEN [s EXCEPT !.allocs = RemoveAt(@, i), !.step.ret = "seat-map-unavailable",
                       !.callResult = [success |-> FALSE, seatInfo |-> NULL]]
        ELSE IF seatToAllocate = NULL
        THEN [s EXCEPT !.allocs = RemoveAt(@, i), !.step.ret = "no-seat",
                       !.callResult = [success |-> FALSE, seatInfo |-> NULL]]
        ELSE [s EXCEPT !.allocs[i].pc = "allocate",
                       !.allocs[i].seat = seatToAllocate,
                       !.step.sent = Append(@, "allocate"),
                       !.step.ret = "pending"]

\* checkAndAllocateFirstSeat that stores a result without an allocation id
allocateAfterResultNoIdCheck(s, i, allocationResult) ==
    LET call == s.allocs[i]
    IN  IF allocationResult = NULL
        THEN [s EXCEPT !.allocs = RemoveAt(@, i), !.step.ret = "allocation-failed",
                       !.callResult = [success |-> FALSE, seatInfo |-> NULL]]
        ELSE LET s1 == [s EXCEPT !.allocs = RemoveAt(@, i),
                                 !.allocatedSeat =
                                     [trainName |-> call.trainInfo.name,
                                      trainId |-> call.trainInfo.trainId,
                                      seatNumber |-> call.seat.seatNumber,
                                      trainCarId |-> call.seat.trainCarId,
                                      allocationId |-> allocationResult.allocationId,
                                      lockFor |-> IF allocationResult.lockFor = 0
                                                  THEN DefaultLockFor
                                                  ELSE allocationResult.lockFor]]
             IN  [s1 EXCEPT !.step.ret = "allocated",
                            !.callResult = [success |-> TRUE,
                                            seatInfo |-> s1.allocatedSeat]]

\* checkAndAllocateFirstSeat that stores the hold duration as the server gave it
allocateAfterResultNoDefault(s, i, allocationResult) ==
    LET call == s.allocs[i]
    IN  IF allocationResult = NULL \/ allocationResult.allocationId = 0
        THEN [s EXCEPT !.allocs = RemoveAt(@, i), !.step.ret = "allocation-failed",
                       !.callResult = [success |-> FALSE, seatInfo |-> NULL]]
        ELSE LET s1 == [s EXCEPT !.allocs = RemoveAt(@, i),
                                 !.allocatedSeat =
                                     [trainName |-> call.trainInfo.name,
                                      trainId |-> call.trainInfo.trainId,
                                      seatNumber |-> call.seat.seatNumber,
                                      trainCarId |-> call.seat.trainCarId,
                                      allocationId |-> allocationResult.allocationId,
                                      lockFor |-> allocationResult.lockFor]]
             IN  [s1 EXCEPT !.step.ret = "allocated",
                            !.callResult = [success |-> TRUE,
                                            seatInfo |-> s1.allocatedSeat]]

\* checkAndAllocateFirstSeat resumed with the allocate result: steps 3 and 4
allocateAfterResult(s, i, allocationResult) ==
    LET call == s.allocs[i]
    IN  IF allocationResult = NULL \/ allocationResult.allocationId = 0
        THEN [s EXCEPT !.allocs = RemoveAt(@, i), !.step.ret = "allocation-failed",
                       !.callResult = [success |-> FALSE, seatInfo |-> NULL]]
        ELSE LET s1 == [s EXCEPT !.allocs = RemoveAt(@, i),
                                 !.allocatedSeat =
                                     [trainName |-> call.trainInfo.name,
                                      trainId |-> call.trainInfo.trainId,
                                      seatNumber |-> call.seat.seatNumber,
                                      trainCarId |-> call.seat.trainCarId,
                                      allocationId |-> allocationResult.allocationId,
                                      lockFor |-> IF allocationResult.lockFor = 0
                                                  THEN DefaultLockFor
                                                  ELSE allocationResult.lockFor]]
             IN  [s1 EXCEPT !.step.ret = "allocated",
                            !.callResult = [success |-> TRUE,
                                            seatInfo |-> s1.allocatedSeat]]

\* releaseSeat that sends the deallocate request whatever the slot holds
releaseSeatBlind(s) ==
    [s EXCEPT !.releases = Append(@, [trainCarId |-> 0, allocationId |-> 0,
                                      seatNumber |-> ""]),
              !.step.sent = Append(@, "deallocate"),
              !.step.ret = "pending"]

\* releaseSeat up to its suspension: the deallocate request
releaseSeat(s) ==
    IF s.allocatedSeat = NULL
    THEN [s EXCEPT !.step.ret = "no-allocation"]
    ELSE [s EXCEPT !.releases = Append(@, [trainCarId |-> s.allocatedSeat.trainCarId,
                                           allocationId |-> s.allocatedSeat.allocationId,
                                           seatNumber |-> s.allocatedSeat.seatNumber]),
                   !.step.sent = Append(@, "deallocate"),
                   !.step.ret = "pending"]

\* releaseSeat that clears the slot also when deallocateSeat threw
releaseAfterResultAlwaysClear(s, i, ok) ==
    IF ok
    THEN [s EXCEPT !.releases = RemoveAt(@, i), !.allocatedSeat = NULL,
                   !.step.ret = "released"]
    ELSE [s EXCEPT !.releases = RemoveAt(@, i), !.allocatedSeat = NULL,
                   !.step.ret = "release-failed"]

\* releaseSeat resumed with the outcome of deallocateSeat
releaseAfterResult(s, i, ok) ==
    IF ok
    THEN [s EXCEPT !.releases = RemoveAt(@, i), !.allocatedSeat = NULL,
                   !.step.ret = "released"]
    ELSE [s EXCEPT !.releases = RemoveAt(@, i), !.step.ret = "release-failed"]

(* -------------------------------- TrainAPI ----------------------------- *)

isRequestInProgress(s) == s.isLoading

\* checkAvailability without its guard against a call in progress
checkAvailabilityNoGuard(s, params, skipDelay) ==
    [s EXCEPT !.isLoading = TRUE,
              !.checks = Append(@, [pc |-> IF skipDelay THEN "fetch" ELSE "sleep",
                                    params |-> params, skipDelay |-> skipDelay]),
              !.step.sent = IF skipDelay THEN Append(@, "availability") ELSE @,
              !.step.ret = "pending"]

\* checkAvailability up to its first suspension: the busy return, the anti-bot
\* sleep, or (skipDelay) the request
checkAvailability(s, params, skipDelay) ==
    IF s.isLoading
    THEN [s EXCEPT !.step.ret = "busy"]
    ELSE IF skipDelay
    THEN [s EXCEPT !.isLoading = TRUE,
                   !.checks = Append(@, [pc |-> "fetch", params |-> params,
                                         skipDelay |-> skipDelay]),
                   !.step.sent = Append(@, "availability"),
                   !.step.ret = "pending"]
    ELSE [s EXCEPT !.isLoading = TRUE,
                   !.checks = Append(@, [pc |-> "sleep", params |-> params,
                                         skipDelay |-> skipDelay]),
                   !.step.ret = "pending"]

\* checkAvailability after the sleep: the request goes out
checkAvailabilityAfterSleep(s, i) ==
    [s EXCEPT !.checks[i].pc = "fetch", !.step.sent = Append(@, "availability")]

\* the end of a checkAvailability call that forgets to reset the flag
checkAvailabilityNoReset(s, i) ==
    [s EXCEPT !.checks = RemoveAt(@, i)]

\* checkAvailability's finally block, as the call ends (data returned or error thrown)
checkAvailabilityFinally(s, i) ==
    [s EXCEPT !.checks = RemoveAt(@, i), !.isLoading = FALSE]

(* ------------------------------ SearchManager -------------------------- *)

\* stopSearch that also drops the held Allocation and its countdown
stopSearchClearing(s) ==
    IF ~s.isSearching THEN s
    ELSE LET s1 == [s EXCEPT !.isSearching = FALSE]
             s2 == IF s1.searchInterval # NoHandle
                   THEN [s1 EXCEPT !.pollTimers = @ \ {s1.searchInterval},
                                   !.searchInterval = NoHandle]
                   ELSE s1
         IN  updateStatus(clearAllocation(hideAllocatedSeat(s2)), "stopped")

\* SearchManager.stopSearch
stopSearch(s) ==
    IF ~s.isSearching THEN s
    ELSE LET s1 == [s EXCEPT !.isSearching = FALSE]
             s2 == IF s1.searchInterval # NoHandle
                   THEN [s1 EXCEPT !.pollTimers = @ \ {s1.searchInterval},
                                   !.searchInterval = NoHandle]
                   ELSE s1
         IN  updateStatus(s2, "stopped")

\* performCheck without the skip when the client is busy
performCheckNoSkip(s) ==
    LET params == getSearchParams(s.form)
    IN  IF params = NULL
        THEN stopSearch(updateStatus(s, "invalid"))
        ELSE LET s1 == updateStatus(s, "checking")
                 skipDelay == s1.isFirstRequest
                 s2 == [s1 EXCEPT !.isFirstRequest = FALSE, !.session.called = TRUE]
             IN  checkAvailability(s2, params, skipDelay)

\* performCheck that reports the skipped tick in the status line
performCheckBusyStatus(s) ==
    IF isRequestInProgress(s) THEN updateStatus(s, "checking")
    ELSE LET params == getSearchParams(s.form)
         IN  IF params = NULL
             THEN stopSearch(updateStatus(s, "invalid"))
             ELSE LET s1 == updateStatus(s, "checking")
                      skipDelay == s1.isFirstRequest
                      s2 == [s1 EXCEPT !.isFirstRequest = FALSE, !.session.called = TRUE]
                  IN  checkAvailability(s2, params, skipDelay)

\* performCheck that never clears isFirstRequest
performCheckNoFlip(s) ==
    IF isRequestInProgress(s) THEN s
    ELSE LET params == getSearchParams(s.form)
         IN  IF params = NULL
             THEN stopSearch(updateStatus(s, "invalid"))
             ELSE LET s1 == updateStatus(s, "checking")
                      s2 == [s1 EXCEPT !.session.called = TRUE]
                  IN  checkAvailability(s2, params, s1.isFirstRequest)

\* SearchManager.performCheck up to the await of checkAvailability
performCheck(s) ==
    IF isRequestInProgress(s) THEN s
    ELSE LET params == getSearchParams(s.form)
         IN  IF params = NULL
             THEN stopSearch(updateStatus(s, "invalid"))
             ELSE LET s1 == updateStatus(s, "checking")
                      skipDelay == s1.isFirstRequest
                      s2 == [s1 EXCEPT !.isFirstRequest = FALSE, !.session.called = TRUE]
                  IN  checkAvailability(s2, params, skipDelay)

\* startSearch without its guard against a session that is already Searching
startSearchNoGuard(s) ==
    LET s1 == [s EXCEPT !.isSearching = TRUE, !.isFirstRequest = TRUE,
                        !.session = [criteria |-> getSearchParams(s.form),
                                     called |-> FALSE]]
        s2 == clearAllocation(hideAllocatedSeat(s1))
        s3 == updateStatus(s2, "started")
        s4 == performCheck(s3)
        h == NewHandle(s4.pollTimers)
    IN  [s4 EXCEPT !.searchInterval = h, !.pollTimers = @ \cup {h}]

\* SearchManager.startSearch
startSearch(s) ==
    IF s.isSearching THEN s
    ELSE LET s1 == [s EXCEPT !.isSearching = TRUE, !.isFirstRequest = TRUE,
                             !.session = [criteria |-> getSearchParams(s.form),
                                          called |-> FALSE]]
             s2 == clearAllocation(hideAllocatedSeat(s1))
             s3 == updateStatus(s2, "started")
             s4 == performCheck(s3)
             h == NewHandle(s4.pollTimers)
         IN  [s4 EXCEPT !.searchInterval = h, !.pollTimers = @ \cup {h}]

\* handleTicketsFound that targets the last candidate train instead of the first
handleTicketsFoundLast(s, result, params) ==
    IF actualAvailableSeats(result.trains) > 0
    THEN LET s1 == addLog(updateStatus(s, "found"), "log:found")
             s2 == stopSearch(s1)
         IN  IF ~hasAllocatedSeat(s2)
             THEN LET targetTrain == result.trains[Len(result.trains)]
                  IN  checkAndAllocateFirstSeat(
                          addLog(s2, "log:allocating"),
                          [trainId |-> targetTrain.trainId, name |-> targetTrain.name],
                          params)
             ELSE addLog(s2, "log:already-held")
    ELSE addLog(updateStatus(s, "sold-out"), "log:sold-out")

\* handleTicketsFound that leaves the search running
handleTicketsFoundNoStop(s, result, params) ==
    IF actualAvailableSeats(result.trains) > 0
    THEN LET s2 == addLog(updateStatus(s, "found"), "log:found")
         IN  IF ~hasAllocatedSeat(s2)
             THEN IF result.trains # <<>>
                  THEN LET targetTrain == result.trains[1]
                       IN  checkAndAllocateFirstSeat(
                               addLog(s2, "log:allocating"),
                               [trainId |-> targetTrain.trainId, name |-> targetTrain.name],
                               params)
                  ELSE s2
             ELSE addLog(s2, "log:already-held")
    ELSE addLog(updateStatus(s, "sold-out"), "log:sold-out")

\* SearchManager.handleTicketsFound up to the await of the allocation attempt
handleTicketsFound(s, result, params) ==
    IF actualAvailableSeats(result.trains) > 0
    THEN LET s1 == addLog(updateStatus(s, "found"), "log:found")
             s2 == stopSearch(s1)
         IN  IF ~hasAllocatedSeat(s2)
             THEN IF result.trains # <<>>
                  THEN LET targetTrain == result.trains[1]
                       IN  checkAndAllocateFirstSeat(
                               addLog(s2, "log:allocating"),
                               [trainId |-> targetTrain.trainId, name |-> targetTrain.name],
                               params)
                  ELSE s2
             ELSE addLog(s2, "log:already-held")
    ELSE addLog(updateStatus(s, "sold-out"), "log:sold-out")

\* SearchManager.handleTicketsFound after the await: the outcome of the attempt
handleAllocResult(s) ==
    LET allocResult == s.callResult
        s1 == [s EXCEPT !.callResult = NULL]
    IN  IF s.step.ret = "pending" THEN s
        ELSE IF allocResult.success
        THEN showAllocatedSeat(addLog(s1, "log:allocated"), allocResult.seatInfo)
        ELSE addLog(s1, "log:not-allocated")

\* performCheck whose catch block stops the search
performCheckStopOnError(s, i, outcome) ==
    LET params == s.checks[i].params
        s1 == checkAvailabilityFinally(s, i)
    IN  IF outcome = NULL
        THEN stopSearch(addLog(updateStatus(s1, "error"), "log:error"))
        ELSE LET result == processTrainData(outcome, params.timeStart, params.timeEnd,
                                            params.selectedCabinClasses)
             IN  IF result.found
                 THEN handleTicketsFound(s1, result, params)
                 ELSE updateStatus(s1, "no-seat")

\* performCheck that stops the search when the filter finds nothing
performCheckStopOnEmpty(s, i, outcome) ==
    LET params == s.checks[i].params
        s1 == checkAvailabilityFinally(s, i)
    IN  IF outcome = NULL
        THEN addLog(updateStatus(s1, "error"), "log:error")
        ELSE LET result == processTrainData(outcome, params.timeStart, params.timeEnd,
                                            params.selectedCabinClasses)
             IN  IF result.found
                 THEN handleTicketsFound(s1, result, params)
                 ELSE updateStatus(stopSearch(s1), "no-seat")

\* SearchManager.performCheck after the await of checkAvailability
performCheckAfterAwait(s, i, outcome) ==
    LET params == s.checks[i].params
        s1 == checkAvailabilityFinally(s, i)
    IN  IF outcome = NULL
        THEN addLog(updateStatus(s1, "error"), "log:error")
        ELSE LET result == processTrainData(outcome, params.timeStart, params.timeEnd,
                                            params.selectedCabinClasses)
             IN  IF result.found
                 THEN handleTicketsFound(s1, result, params)
                 ELSE updateStatus(s1, "no-seat")

(* ------------------- the page: one action per task --------------------- *)

\* the user edits the search form
EditForm ==
    \E f \in FormValues :
        /\ f # form
        /\ Set([Begin("edit") EXCEPT !.form = f])

\* window.startSearch
StartClick == Set(startSearch(Begin("start")))

\* window.stopSearch
StopClick == Set(stopSearch(Begin("stop")))

\* an armed poll interval fires: the callback of setInterval in startSearch
Tick ==
    \E h \in pollTimers : Set(performCheck(Begin("tick")))

\* the anti-bot sleep of a checkAvailability call ends
SleepDone ==
    \E i \in 1..Len(checks) :
        /\ checks[i].pc = "sleep"
        /\ Set(checkAvailabilityAfterSleep(Begin("sleep-done"), i))

\* the availability request of a poll ends: NULL for a non-success status or a
\* transport error, else the body
PollResponse ==
    \E i \in 1..Len(checks), outcome \in {NULL} \cup Responses :
        /\ checks[i].pc = "fetch"
        /\ Set(performCheckAfterAwait(Begin("poll-response"), i, outcome))

\* the seat-map request of an allocation attempt ends
SeatMapResponse ==
    \E i \in 1..Len(allocs), seatMapData \in SeatMapOutcomes :
        /\ allocs[i].pc = "seatMap"
        /\ Set(handleAllocResult(allocateAfterSeatMap(Begin("seat-map-response"), i,
                                                      seatMapData)))

\* the allocate request of an allocation attempt ends
AllocateResponse ==
    \E i \in 1..Len(allocs), allocationResult \in AllocateOutcomes :
        /\ allocs[i].pc = "allocate"
        /\ Set(handleAllocResult(allocateAfterResult(Begin("allocate-response"), i,
                                                     allocationResult)))

\* the click handler of the release button (the user confirmed)
ReleaseClick ==
    LET s == releaseSeat(Begin("release"))
    IN  Set(IF s.step.ret = "no-allocation" THEN addLog(s, "alert") ELSE s)

\* the click handler of the release button that leaves the countdown running
releaseClickNoHide(s, i, ok) ==
    LET s1 == releaseAfterResult(s, i, ok)
    IN  IF s1.step.ret = "released"
        THEN addLog(s1, "log:released")
        ELSE addLog(s1, "alert")

\* the click handler of the release button after its await of releaseSeat
releaseClickAfterAwait(s, i, ok) ==
    LET s1 == releaseAfterResult(s, i, ok)
    IN  IF s1.step.ret = "released"
        THEN addLog(hideAllocatedSeat(s1), "log:released")
        ELSE addLog(s1, "alert")

\* the deallocate request of a release ends; the click handler resumes
DeallocateResponse ==
    \E i \in 1..Len(releases), ok \in BOOLEAN :
        Set(releaseClickAfterAwait(Begin("deallocate-response"), i, ok))

\* the countdown tick that finds secondsLeft <= 0 (the ticks before it change
\* only the displayed time and secondsLeft)
CountdownExpire ==
    \E h \in countdownTimers :
        Set(updateTimer([Begin("expire") EXCEPT !.secondsLeft = 0]))

Next ==
    \/ EditForm
    \/ StartClick
    \/ StopClick
    \/ Tick
    \/ SleepDone
    \/ PollResponse
    \/ SeatMapResponse
    \/ AllocateResponse
    \/ ReleaseClick
    \/ DeallocateResponse
    \/ CountdownExpire

Spec == Init /\ [][Next]_vars

\* the user changes the travel date to another valid one
EditCriteria ==
    /\ form # FormOK2
    /\ Set([Begin("edit") EXCEPT !.form = FormOK2])

\* the page up to the end of an allocation attempt, with a user who also changes the
\* date
CriteriaNext ==
    \/ EditForm
    \/ EditCriteria
    \/ StartClick
    \/ StopClick
    \/ Tick
    \/ SleepDone
    \/ PollResponse
    \/ SeatMapResponse
    \/ AllocateResponse

CriteriaSpec == Init /\ [][CriteriaNext]_vars

\* the countdown interval fires: one second of the hold has passed
CountdownTick ==
    \E h \in countdownTimers : Set(updateTimer(Begin("countdown-tick")))

\* the page from a start to the expiry of the hold, second by second
CountdownNext ==
    \/ StartClick
    \/ PollResponse
    \/ SeatMapResponse
    \/ AllocateResponse
    \/ CountdownTick

CountdownSpec == Init /\ [][CountdownNext]_vars

(* ---------- the page left to search, with timers and requests fair ----- *)

\* the page loads with valid criteria
LiveInit == Init /\ form = FormOK1

\* the availability request of a poll ends without a seat in the window: it fails,
\* or its response has none
PollWithoutSeat ==
    \E i \in 1..Len(checks), outcome \in {NULL} \cup Responses :
        /\ checks[i].pc = "fetch"
        /\ \/ outcome = NULL
           \/ ~processTrainData(outcome, checks[i].params.timeStart,
                                checks[i].params.timeEnd,
                                checks[i].params.selectedCabinClasses).found
        /\ Set(performCheckAfterAwait(Begin("poll-response"), i, outcome))

\* the user starts searches and leaves the criteria and a running search alone
LiveNext ==
    \/ StartClick
    \/ Tick
    \/ SleepDone
    \/ PollResponse
    \/ SeatMapResponse
    \/ AllocateResponse
    \/ CountdownExpire

\* an armed setInterval keeps firing, a setTimeout fires, and every request ends
LiveSpec ==
    /\ LiveInit
    /\ [][LiveNext]_vars
    /\ WF_vars(Tick)
    /\ WF_vars(SleepDone)
    /\ WF_vars(PollResponse)
    /\ WF_vars(SeatMapResponse)
    /\ WF_vars(AllocateResponse)

(* ------------- the client and the tracker called directly -------------- *)

\* any caller calls trainAPI.checkAvailability
CallCheckAvailability ==
    \E skipDelay \in BOOLEAN :
        Set(checkAvailability(Begin("checkAvailability"), getSearchParams(FormOK1), skipDelay))

\* a checkAvailability call ends: its finally block runs, it returns or throws
ReturnCheckAvailability ==
    \E i \in 1..Len(checks), outcome \in {NULL} \cup Responses :
        /\ checks[i].pc = "fetch"
        /\ Set([checkAvailabilityFinally(Begin("checkAvailability-end"), i)
                   EXCEPT !.step.ret = IF outcome = NULL THEN "error" ELSE "data"])

\* any caller calls seatAllocationManager.checkAndAllocateFirstSeat
CallAllocate ==
    \E train \in {101, 104} :
        Set(checkAndAllocateFirstSeat(Begin("allocate"),
                                      [trainId |-> train, name |-> train],
                                      getSearchParams(FormOK1)))

ReturnSeatMap ==
    \E i \in 1..Len(allocs), seatMapData \in SeatMapOutcomes :
        /\ allocs[i].pc = "seatMap"
        /\ Set(allocateAfterSeatMap(Begin("allocate-seat-map"), i, seatMapData))

ReturnAllocate ==
    \E i \in 1..Len(allocs), allocationResult \in AllocateOutcomes :
        /\ allocs[i].pc = "allocate"
        /\ Set(allocateAfterResult(Begin("allocate-end"), i, allocationResult))

\* any caller calls seatAllocationManager.releaseSeat
CallRelease == Set(releaseSeat(Begin("release")))

ReturnDeallocate ==
    \E i \in 1..Len(releases), ok \in BOOLEAN :
        Set(releaseAfterResult(Begin("release-end"), i, ok))

\* any caller calls seatAllocationManager.clearAllocation
CallClear == Set(clearAllocation(Begin("clear")))

UnitNext ==
    \/ CallCheckAvailability
    \/ SleepDone
    \/ ReturnCheckAvailability
    \/ CallAllocate
    \/ ReturnSeatMap
    \/ ReturnAllocate
    \/ CallRelease
    \/ ReturnDeallocate
    \/ CallClear

UnitSpec == Init /\ [][UnitNext]_vars

(* ------------------ the result filter called directly ------------------ *)

\* window bounds the form can hold
FilterTimes == {<<0, 8, 0, 0>>, <<0, 9, 1, 5>>, <<1, 2, 0, 0>>, <<2, 3, 5, 9>>}

\* windows with timeStart <= timeEnd
FilterWindows == {w \in FilterTimes \X FilterTimes : StrLeq(w[1], w[2])}

\* departure minutes: 07:59, 08:00, 09:15, 12:00, 12:01, 23:59
FilterDepartures == {479, 480, 555, 720, 721, 1439}

\* what the first train of a response can look like: its cabin entries (economy
\* free, economy sold out beside business, economy 3 beside business 5, a class the
\* catalog does not know, an entry without a cabin class, no entry), or a missing
\* part of the response
FilterVariants ==
    {[kind |-> "plain", cabins |-> c] :
        c \in {<<Cabin(2, 1)>>,
               <<Cabin(2, 0), Cabin(1, 5)>>,
               <<Cabin(2, 3), Cabin(1, 5)>>,
               <<Cabin(99, 7)>>,
               <<[Cabin(2, 3) EXCEPT !.hasCabinClass = FALSE]>>,
               <<>>}}
    \cup {[kind |-> k, cabins |-> <<Cabin(2, 1)>>] :
              k \in {"no-segments", "no-cabins", "no-legs"}}

\* a response with two trains; the first is shaped by the variant, the second has an
\* economy seat and a second segment that leaves at 09:15
FilterResponse(d1, d2, v) ==
    LET first == Train(1, d1, d1 + 60, v.cabins)
        second == [Train(2, d2, d2 + 60, <<Cabin(2, 1)>>) EXCEPT
                      !.segments = <<[departureTime |-> d2, arrivalTime |-> d2 + 60],
                                     [departureTime |-> 555, arrivalTime |-> 600]>>]
    IN  [hasLegs |-> v.kind # "no-legs",
         trainAvailabilities |->
             <<<<[first EXCEPT !.segments = IF v.kind = "no-segments" THEN <<>> ELSE @,
                               !.hasCabins = v.kind # "no-cabins"],
                 second>>>>]

FilterInputs ==
    {[data |-> FilterResponse(d[1], d[2], v), timeStart |-> w[1], timeEnd |-> w[2],
      selectedCabinClasses |-> <<"ECONOMY">>] :
        d \in FilterDepartures \X FilterDepartures, w \in FilterWindows,
        v \in FilterVariants}

FilterInit ==
    /\ isSearching = FALSE
    /\ searchInterval = NoHandle
    /\ isFirstRequest = TRUE
    /\ pollTimers = {}
    /\ form = FormOK1
    /\ isLoading = FALSE
    /\ allocatedSeat = NULL
    /\ checks = <<>>
    /\ allocs = <<>>
    /\ releases = <<>>
    /\ countdownInterval = NoHandle
    /\ countdownTimers = {}
    /\ status = "waiting"
    /\ step = [op |-> "load", notes |-> <<>>, sent |-> <<>>, ret |-> "none"]
    /\ session = [criteria |-> NULL, called |-> FALSE]
    /\ filterArgs \in FilterInputs
    /\ filterResult = NULL
    /\ secondsLeft = 0
    /\ callArgs = NULL
    /\ callResult = NULL

\* any caller calls searchManager.processTrainData
CallProcessTrainData ==
    /\ filterArgs # NULL
    /\ filterResult = NULL
    /\ Set([Begin("processTrainData") EXCEPT
               !.filterResult = processTrainData(filterArgs.data, filterArgs.timeStart,
                                                 filterArgs.timeEnd,
                                                 filterArgs.selectedCabinClasses)])

FilterNext == CallProcessTrainData

FilterSpec == FilterInit /\ [][FilterNext]_vars

(* ------------- helpers and client operations called directly ----------- *)

\* the state after construction, with the arguments of the call to come
CallInit(inputs) ==
    /\ isSearching = FALSE
    /\ searchInterval = NoHandle
    /\ isFirstRequest = TRUE
    /\ pollTimers = {}
    /\ form = FormOK1
    /\ isLoading = FALSE
    /\ allocatedSeat = NULL
    /\ checks = <<>>
    /\ allocs = <<>>
    /\ releases = <<>>
    /\ countdownInterval = NoHandle
    /\ countdownTimers = {}
    /\ status = "waiting"
    /\ step = [op |-> "load", notes |-> <<>>, sent |-> <<>>, ret |-> "none"]
    /\ session = [criteria |-> NULL, called |-> FALSE]
    /\ filterArgs = NULL
    /\ filterResult = NULL
    /\ secondsLeft = 0
    /\ callArgs \in inputs
    /\ callResult = NULL

\* seat items of a car: saleable or not, economy or business, numbered or not
LocatorItems ==
    {SeatItem(saleable, cabinClassId, seatNumber) :
        saleable \in BOOLEAN, cabinClassId \in {2, 1}, seatNumber \in {"5A", "5B", ""}}

\* car 11 with two items and nothing, 5A, or an entry without a number held
LocatorCars ==
    {Car(11, <<a, b>>, held) :
        a \in LocatorItems, b \in LocatorItems, held \in {<<>>, <<"5A">>, <<"">>}}

\* what follows car 11: nothing, car 12 with 5A in economy free or held, or a car 12
\* without a template
LocatorTails ==
    {<<>>,
     <<Car(12, <<SeatItem(TRUE, 2, "5A")>>, <<>>)>>,
     <<Car(12, <<SeatItem(TRUE, 2, "5A")>>, <<"5A">>)>>,
     <<[Car(12, <<SeatItem(TRUE, 2, "5A")>>, <<>>) EXCEPT !.hasTemplate = FALSE]>>}

LocatorInputs ==
    {[fn |-> "findFirstAvailableSeat", seatMaps |-> <<car>> \o tail,
      selectedCabinClasses |-> selected] :
        car \in LocatorCars, tail \in LocatorTails,
        selected \in {<<"ECONOMY">>, <<"BUSINESS", "ECONOMY">>}}

\* CONFIG.MIN_ANTI_BOT_DELAY, in milliseconds
MIN_ANTI_BOT_DELAY == 3000

\* CONFIG.MAX_ANTI_BOT_DELAY, in milliseconds
MAX_ANTI_BOT_DELAY == 8000

\* values of Math.random(), as fractions in [0, 1)
RandomDraws == {[num |-> k, den |-> 16] : k \in 0..15}

\* getRandomDelay that scales the draw by max alone
getRandomDelayWide(min, max, random) ==
    min + (random.num * max) \div random.den

\* getRandomDelay: Math.floor(min + Math.random() * (max - min))
getRandomDelay(min, max, random) ==
    min + (random.num * (max - min)) \div random.den

\* the value Math.random() gives to the next checkAvailability
DelayInputs == {[fn |-> "getRandomDelay", random |-> r] : r \in RandomDraws}

\* well-formed dates, by their parts, and the empty string
DateInputs ==
    {[fn |-> "convertDate", date |-> <<y, m, d>>] :
        y \in {2025, 2026}, m \in 1..12, d \in 1..31}
    \cup {[fn |-> "convertDate", date |-> <<>>]}

\* HTTP status codes the endpoints answer with
HttpStatuses == {200, 201, 204, 299, 300, 301, 400, 401, 403, 404, 429, 500, 503}

\* how a fetch ends: it rejects (transport error), or it resolves with a status and
\* a body that is JSON or not
HttpOutcomes ==
    {[kind |-> "network-error", status |-> 0, json |-> FALSE]}
    \cup {[kind |-> "response", status |-> s, json |-> j] :
              s \in HttpStatuses, j \in BOOLEAN}

ClientOps == {"checkAvailability", "checkSeatMap", "allocateSeat", "deallocateSeat"}

ClientInputs == {[fn |-> f, outcome |-> o] : f \in ClientOps, o \in HttpOutcomes}

\* response.ok
ResponseOk(o) == o.kind = "response" /\ o.status \in 200..299

\* how checkAvailability ends after its fetch: it throws or returns the body
checkAvailabilityEnd(o) ==
    IF ~ResponseOk(o) \/ ~o.json THEN [threw |-> TRUE, value |-> NULL]
    ELSE [threw |-> FALSE, value |-> "body"]

\* how checkSeatMap ends after its fetch: null on any error, else the body
checkSeatMapEnd(o) ==
    IF ~ResponseOk(o) \/ ~o.json THEN [threw |-> FALSE, value |-> NULL]
    ELSE [threw |-> FALSE, value |-> "body"]

\* how allocateSeat ends after its fetch: null on any error, else the body
allocateSeatEnd(o) ==
    IF ~ResponseOk(o) \/ ~o.json THEN [threw |-> FALSE, value |-> NULL]
    ELSE [threw |-> FALSE, value |-> "body"]

\* deallocateSeat that swallows its errors
deallocateSeatSwallow(o) ==
    IF ~ResponseOk(o) THEN [threw |-> FALSE, value |-> NULL]
    ELSE [threw |-> FALSE, value |-> "success"]

\* how deallocateSeat ends after its fetch: it throws, or returns success without
\* reading the body
deallocateSeatEnd(o) ==
    IF ~ResponseOk(o) THEN [threw |-> TRUE, value |-> NULL]
    ELSE [threw |-> FALSE, value |-> "success"]

\* any caller calls seatAllocationManager.findFirstAvailableSeat
CallFindFirstAvailableSeat ==
    /\ callResult = NULL
    /\ callArgs.fn = "findFirstAvailableSeat"
    /\ Set([Begin("findFirstAvailableSeat") EXCEPT
               !.callResult = [returned |-> findFirstAvailableSeat(
                                               callArgs.seatMaps,
                                               callArgs.selectedCabinClasses)]])

\* any caller converts a date to the API format and back
CallConvertDate ==
    /\ callResult = NULL
    /\ callArgs.fn = "convertDate"
    /\ Set([Begin("convertDate") EXCEPT
               !.callResult =
                   [api |-> convertDateToAPI(callArgs.date),
                    back |-> convertDateFromAPI(convertDateToAPI(callArgs.date))]])

\* a client operation's fetch ends and the operation returns or throws
CallClient ==
    /\ callResult = NULL
    /\ callArgs.fn \in ClientOps
    /\ Set([Begin(callArgs.fn) EXCEPT
               !.callResult =
                   CASE callArgs.fn = "checkAvailability"
                            -> checkAvailabilityEnd(callArgs.outcome)
                     [] callArgs.fn = "checkSeatMap" -> checkSeatMapEnd(callArgs.outcome)
                     [] callArgs.fn = "allocateSeat" -> allocateSeatEnd(callArgs.outcome)
                     [] callArgs.fn = "deallocateSeat"
                            -> deallocateSeatEnd(callArgs.outcome)])

CallsInit == CallInit(LocatorInputs \cup DateInputs \cup ClientInputs)

CallsNext ==
    \/ CallFindFirstAvailableSeat
    \/ CallConvertDate
    \/ CallClient

CallsSpec == CallsInit /\ [][CallsNext]_vars

(* -------------- checkAvailability with its anti-bot delay -------------- *)

\* any caller calls trainAPI.checkAvailability; callResult keeps the delay it
\* sleeps for
CallCheckAvailabilityDelayed ==
    \E skipDelay \in BOOLEAN :
        LET s == checkAvailability(Begin("checkAvailability"), getSearchParams(FormOK1),
                                   skipDelay)
            randomDelay == getRandomDelay(MIN_ANTI_BOT_DELAY, MAX_ANTI_BOT_DELAY,
                                          callArgs.random)
        IN  Set(IF s.step.ret = "pending" /\ ~skipDelay
                THEN [s EXCEPT !.callResult = [randomDelay |-> randomDelay]]
                ELSE s)

DelayInit == CallInit(DelayInputs)

DelayNext ==
    \/ CallCheckAvailabilityDelayed
    \/ SleepDone
    \/ ReturnCheckAvailability

DelaySpec == DelayInit /\ [][DelayNext]_vars

(* ----------------------------- the properties --------------------------- *)

\* requests on the wire: availability, seat-map, allocate and release together
InFlight ==
    Cardinality({i \in 1..Len(checks) : checks[i].pc = "fetch"}) + Len(allocs) + Len(releases)

\* C1: in every reachable state the recurring poll timer is armed if and only if the
\* session is Searching
C1_TimerArmedIffSearching == isSearching <=> (pollTimers # {})

\* C2: once stop() has returned, the next task (unless it is a start()) is not a poll
\* tick and issues no availability request
C2_StopSilencesPolling ==
    [][(step.op = "stop" /\ step'.op # "start")
        => (step'.op # "tick" /\ ~SeqContains(step'.sent, "availability"))]_vars

\* C3: at every moment at most one client request is in flight, counting availability,
\* seat-map, allocate and release requests together
C3_AtMostOneRequestInFlight == InFlight <= 1

\* C4: a checkAvailability call made while a previous call is pending returns the busy
\* sentinel at once: it sends no request, suspends nothing for later and raises no error
C4_BusyCallReturnsSentinel ==
    [][(checks # <<>> /\ step'.op = "checkAvailability")
        => /\ step'.ret = "busy"
           /\ step'.sent = <<>>
           /\ checks' = checks
           /\ isLoading' = isLoading]_vars

\* C4 witness: a call has just returned busy while the earlier one is still pending
C4_Witness ==
    step.op = "checkAvailability" /\ step.ret = "busy" /\ Len(checks) = 1

\* C5: polls never overlap: at most one poll is suspended in checkAvailability, and a
\* tick that fires while it is pending is dropped: it changes nothing, notifies nothing
\* and sends nothing
C5_PollsNeverOverlap ==
    [][/\ Len(checks') <= 1
       /\ (checks # <<>> /\ step'.op = "tick")
            => /\ UNCHANGED <<isSearching, searchInterval, isFirstRequest, pollTimers, form,
                              isLoading, allocatedSeat, checks, allocs, releases,
                              countdownInterval, countdownTimers, status>>
               /\ step'.notes = <<>>
               /\ step'.sent = <<>>]_vars

\* C5 witness: a tick was dropped while a poll is pending
C5_Witness ==
    step.op = "tick" /\ step.notes = <<>> /\ Len(checks) = 1 /\ checks[1].pc = "fetch"

\* C6: whenever no checkAvailability call is in progress the request-in-progress flag
\* is false
C6_FlagNeverStuck == (checks = <<>>) => ~isLoading

\* C6 witness: a poll's request failed and the flag is back to false
C6_Witness ==
    step.op = "poll-response" /\ status = "error" /\ checks = <<>> /\ ~isLoading

\* C7: at most one allocation attempt is in progress at any time, and a successful
\* allocate never replaces an Allocation that is already stored
C7_NoAllocationRace ==
    [][/\ Len(allocs') <= 1
       /\ ~(allocatedSeat # NULL /\ step'.ret = "allocated")]_vars

\* C8: the tracker's allocate operation called while an Allocation is held returns a
\* failure at once, sends no seat-map or allocate request and leaves the Allocation
C8_AllocateRefusedWhileHeld ==
    [][(allocatedSeat # NULL /\ step'.op = "allocate")
        => /\ step'.ret # "pending"
           /\ step'.sent = <<>>
           /\ allocatedSeat' = allocatedSeat]_vars

\* the task in which a poll's response passes the filter with found = true and a
\* selected-class seat sum > 0
FoundWithSeats ==
    \E i \in 1..Len(checks), outcome \in Responses :
        LET params == checks[i].params
            result == processTrainData(outcome, params.timeStart, params.timeEnd,
                                       params.selectedCabinClasses)
        IN  /\ checks[i].pc = "fetch"
            /\ result.found
            /\ actualAvailableSeats(result.trains) > 0
            /\ Set(performCheckAfterAwait(Begin("poll-response"), i, outcome))

\* C9: on found with seats the session is Stopped, the poll timer is cancelled (no
\* timer is left to tick) and a 'found' notification is surfaced
C9_FoundStopsPolling ==
    [][FoundWithSeats
        => /\ ~isSearching'
           /\ pollTimers' = {}
           /\ SeqContains(step'.notes, "found")]_vars

\* the first train of the response, in the order the filter visits them, that is a
\* candidate with a seat in a selected class
FirstCandidate(outcome, params) ==
    LET trains == Flatten(outcome.trainAvailabilities)
        info(k) == processTrainAvailability(trains[k], params.timeStart, params.timeEnd,
                                            params.selectedCabinClasses)
        good == {k \in 1..Len(trains) :
                    info(k) # NULL /\ hasAvailableSeatsInSelectedClasses(info(k))}
    IN  info(CHOOSE k \in good : \A j \in good : k <= j)

\* C10: on found with seats an allocation attempt on the first candidate train is
\* started if and only if no Allocation is held at that moment; if one is held no
\* seat-map or allocate request is sent and the Allocation is unchanged
C10_AttemptIffNoneHeld ==
    [][(step'.op = "poll-response") =>
       \A i \in 1..Len(checks), outcome \in Responses :
        LET params == checks[i].params
            result == processTrainData(outcome, params.timeStart, params.timeEnd,
                                       params.selectedCabinClasses)
        IN  (/\ checks[i].pc = "fetch"
             /\ result.found
             /\ actualAvailableSeats(result.trains) > 0
             /\ Set(performCheckAfterAwait(Begin("poll-response"), i, outcome)))
            => IF allocatedSeat = NULL
               THEN /\ step'.sent = <<"seatMap">>
                    /\ Len(allocs') = Len(allocs) + 1
                    /\ allocs'[Len(allocs')].pc = "seatMap"
                    /\ allocs'[Len(allocs')].trainInfo.trainId
                         = FirstCandidate(outcome, params).trainId
                    /\ allocatedSeat' = NULL
               ELSE /\ step'.sent = <<>>
                    /\ allocs' = allocs
                    /\ allocatedSeat' = allocatedSeat]_vars

\* C10 witness: seats were found while an Allocation was held, and no attempt was made
C10_Witness ==
    /\ step.op = "poll-response"
    /\ SeqContains(step.notes, "log:already-held")
    /\ allocatedSeat # NULL

\* C11: start() while the session is Searching is a no-op: it resets nothing, clears no
\* Allocation, runs no poll, arms no timer and notifies nothing
C11_StartWhileSearchingNoOp ==
    [][(isSearching /\ step'.op = "start")
        => /\ UNCHANGED <<isSearching, searchInterval, isFirstRequest, pollTimers, form,
                          isLoading, allocatedSeat, checks, allocs, releases,
                          countdownInterval, countdownTimers, status, session>>
           /\ step'.notes = <<>>
           /\ step'.sent = <<>>]_vars

\* C11 witness: start() was clicked while Searching, after the first poll, with an
\* Allocation in the slot
C11_Witness ==
    /\ step.op = "start"
    /\ step.notes = <<>>
    /\ isSearching
    /\ ~isFirstRequest
    /\ allocatedSeat # NULL

\* C12: the first checkAvailability call of a session is issued with skipDelay = true
\* and every later call of that session with skipDelay = false
C12_SkipDelayOncePerSession ==
    [][(Len(checks') = Len(checks) + 1)
        => checks'[Len(checks')].skipDelay
             = (IF step'.op = "start" THEN TRUE ELSE ~session.called)]_vars

\* C12 witness: a later poll of a session has called checkAvailability with
\* skipDelay = false and waits in the anti-bot sleep
C12_Witness ==
    /\ step.op = "tick"
    /\ session.called
    /\ Len(checks) = 1
    /\ ~checks[1].skipDelay
    /\ checks[1].pc = "sleep"

\* C13: a start() that begins a session leaves the Allocation slot empty without a
\* release request, and while the new session is Searching the slot stays empty (an
\* attempt can only have been started by an earlier session)
C13_NoPriorAllocationInSession ==
    [][/\ (step'.op = "start" /\ ~isSearching)
            => (allocatedSeat' = NULL /\ ~SeqContains(step'.sent, "deallocate"))
       /\ isSearching' => allocatedSeat' = NULL]_vars

\* C14: stop() issues no release request, leaves the Allocation slot unchanged and
\* does not cancel the allocation countdown
C14_StopLeavesAllocation ==
    [][(step'.op = "stop")
        => /\ allocatedSeat' = allocatedSeat
           /\ countdownInterval' = countdownInterval
           /\ countdownTimers' = countdownTimers
           /\ releases' = releases
           /\ step'.sent = <<>>]_vars

\* C14 witness: stop() has stopped a Searching session while an Allocation is held
\* and its countdown runs
C14_Witness ==
    /\ step.op = "stop"
    /\ SeqContains(step.notes, "stopped")
    /\ allocatedSeat # NULL
    /\ countdownInterval \in countdownTimers

\* C15: a poll whose availability request fails surfaces an error notification and
\* changes neither the session state nor its timer; a Searching session stays
\* Searching with its timer armed and the client free for the next tick
C15_PollErrorKeepsSearching ==
    [][(step'.op = "poll-response") =>
       \A i \in 1..Len(checks) :
        (/\ checks[i].pc = "fetch"
         /\ Set(performCheckAfterAwait(Begin("poll-response"), i, NULL)))
        => /\ isSearching' = isSearching
           /\ searchInterval' = searchInterval
           /\ pollTimers' = pollTimers
           /\ isSearching => searchInterval' \in pollTimers'
           /\ status' = "error"
           /\ SeqContains(step'.notes, "error")
           /\ ~isLoading'
           /\ allocs' = allocs
           /\ allocatedSeat' = allocatedSeat]_vars

\* C15 witness: a poll of a Searching session has failed and the timer is still armed
C15_Witness ==
    /\ step.op = "poll-response"
    /\ status = "error"
    /\ isSearching
    /\ searchInterval \in pollTimers

\* C16: a tick that finds the criteria invalid leaves the session Stopped, issues no
\* availability request, and ends with the validation error as the status
C16_ValidationErrorSurfaced ==
    [][(step'.op = "tick" /\ ~isLoading /\ getSearchParams(form) = NULL)
        => /\ ~isSearching'
           /\ step'.sent = <<>>
           /\ checks' = checks
           /\ status' = "invalid"]_vars

\* C17: start() with invalid criteria does not leave the session Searching, arms no
\* poll timer and issues no availability request
C17_InvalidStartRejected ==
    [][(step'.op = "start" /\ ~isSearching /\ getSearchParams(form) = NULL)
        => /\ ~isSearching'
           /\ pollTimers' = pollTimers
           /\ step'.sent = <<>>
           /\ checks' = checks]_vars

\* C18: every poll of a Searching session uses the criteria in effect when start()
\* began the session, and the allocation attempt a poll triggers uses the criteria of
\* that poll
C18_CriteriaImmutable ==
    [][/\ (isSearching' /\ Len(checks') = Len(checks) + 1)
            => checks'[Len(checks')].params = session'.criteria
       /\ (step'.op = "poll-response" /\ Len(allocs') = Len(allocs) + 1)
            => \E i \in 1..Len(checks) :
                   /\ checks' = RemoveAt(checks, i)
                   /\ allocs'[Len(allocs')].searchParams = checks[i].params]_vars

\* C19: a poll whose filtered result has found = false changes neither the session
\* state nor its timer (a Searching session stays Searching with its timer armed),
\* surfaces the still-searching status and starts no allocation attempt
C19_NotFoundKeepsSearching ==
    [][(step'.op = "poll-response") =>
       \A i \in 1..Len(checks), outcome \in Responses :
        LET params == checks[i].params
            result == processTrainData(outcome, params.timeStart, params.timeEnd,
                                       params.selectedCabinClasses)
        IN  (/\ checks[i].pc = "fetch"
             /\ ~result.found
             /\ Set(performCheckAfterAwait(Begin("poll-response"), i, outcome)))
            => /\ isSearching' = isSearching
               /\ searchInterval' = searchInterval
               /\ pollTimers' = pollTimers
               /\ isSearching => searchInterval' \in pollTimers'
               /\ status' = "no-seat"
               /\ step'.sent = <<>>
               /\ allocs' = allocs
               /\ allocatedSeat' = allocatedSeat]_vars

\* C19 witness: a poll of a Searching session found nothing and the timer is armed
C19_Witness ==
    /\ step.op = "poll-response"
    /\ status = "no-seat"
    /\ isSearching
    /\ searchInterval \in pollTimers

\* C20: for criteria with timeStart <= timeEnd, every candidate the filter emits is a
\* train of the response whose first segment's formatted departure time t satisfies
\* timeStart <= t <= timeEnd under string comparison
C20_EmittedWithinWindow ==
    (filterResult # NULL) =>
        \A k \in 1..Len(filterResult.trains) :
            LET c == filterResult.trains[k]
                trains == Flatten(filterArgs.data.trainAvailabilities)
            IN  \E j \in 1..Len(trains) :
                    LET t == formatTime(trains[j].segments[1].departureTime)
                    IN  /\ trains[j].id = c.trainId
                        /\ c.departureTime = t
                        /\ StrLeq(filterArgs.timeStart, t)
                        /\ StrLeq(t, filterArgs.timeEnd)

\* C20 witness: of two trains the filter emitted only the one that leaves exactly at
\* timeEnd
C20_Witness ==
    /\ filterResult # NULL
    /\ Len(filterResult.trains) = 1
    /\ filterResult.trains[1].departureTime = filterArgs.timeEnd
    /\ filterArgs.timeStart # filterArgs.timeEnd

\* the train has a segment and its first segment leaves inside the window
InWindowTrain(train, args) ==
    /\ train.segments # <<>>
    /\ StrLeq(args.timeStart, formatTime(train.segments[1].departureTime))
    /\ StrLeq(formatTime(train.segments[1].departureTime), args.timeEnd)

\* the train has an entry of a catalog class that is selected, with at least
\* minSeats seats
HasSelectedEntry(train, args, minSeats) ==
    /\ train.hasCabins
    /\ \E k \in 1..Len(train.cabinClassAvailabilities) :
           LET entry == train.cabinClassAvailabilities[k]
           IN  /\ entry.hasCabinClass
               /\ entry.availabilityCount >= minSeats
               /\ \E n \in 1..Len(args.selectedCabinClasses) :
                      CabinClassId(args.selectedCabinClasses[n]) = entry.cabinClassId

\* C21: the filter returns found = true if and only if the response has a train with
\* a segment, a departure inside the window and an entry of a catalog class that is
\* selected with availability > 0
C21_FoundIffSeatInWindow ==
    (filterResult # NULL) =>
        LET trains == Flatten(filterArgs.data.trainAvailabilities)
        IN  filterResult.found
              <=> /\ filterArgs.data.hasLegs
                  /\ \E j \in 1..Len(trains) :
                         /\ InWindowTrain(trains[j], filterArgs)
                         /\ HasSelectedEntry(trains[j], filterArgs, 1)

\* C21 witness: found = true for a response whose first train is inside the window
\* but sold out in the selected class, so that only the second train counts
C21_Witness ==
    /\ filterResult # NULL
    /\ filterResult.found
    /\ Len(filterResult.trains) = 1
    /\ filterResult.trains[1].trainId = 2
    /\ LET first == filterArgs.data.trainAvailabilities[1][1]
       IN  /\ InWindowTrain(first, filterArgs)
           /\ HasSelectedEntry(first, filterArgs, 0)

\* C22: every train inside the window that has an entry of a selected class is in the
\* filter's candidate list, also when that availability is zero
C22_SoldOutTrainsListed ==
    (filterResult # NULL /\ filterArgs.data.hasLegs) =>
        LET trains == Flatten(filterArgs.data.trainAvailabilities)
        IN  \A j \in 1..Len(trains) :
                (InWindowTrain(trains[j], filterArgs)
                 /\ HasSelectedEntry(trains[j], filterArgs, 0))
                => \E k \in 1..Len(filterResult.trains) :
                       filterResult.trains[k].trainId = trains[j].id

\* C24: an allocation attempt whose seat map is unavailable or holds no free seat of
\* a selected class ends with a failure result, sends no allocate request and does
\* not touch the Allocation slot; one whose allocate call returns null or no
\* allocation id ends with a failure result and does not touch the slot either
C24_AllocateFailsSoftly ==
    [][/\ (step'.op = "allocate-seat-map") =>
          \A i \in 1..Len(allocs), seatMapData \in SeatMapOutcomes :
            (/\ allocs[i].pc = "seatMap"
             /\ Set(allocateAfterSeatMap(Begin("allocate-seat-map"), i, seatMapData))
             /\ IF seatMapData = NULL THEN TRUE
                ELSE IF ~seatMapData.hasSeatMaps THEN TRUE
                ELSE findFirstAvailableSeat(seatMapData.seatMaps,
                         allocs[i].searchParams.selectedCabinClasses) = NULL)
            => /\ step'.ret \in {"seat-map-unavailable", "no-seat"}
               /\ step'.sent = <<>>
               /\ allocatedSeat' = allocatedSeat
               /\ allocs' = RemoveAt(allocs, i)
       /\ (step'.op = "allocate-end") =>
          \A i \in 1..Len(allocs), allocationResult \in AllocateOutcomes :
            (/\ allocs[i].pc = "allocate"
             /\ Set(allocateAfterResult(Begin("allocate-end"), i, allocationResult))
             /\ IF allocationResult = NULL THEN TRUE
                ELSE allocationResult.allocationId = 0)
            => /\ step'.ret = "allocation-failed"
               /\ step'.sent = <<>>
               /\ allocatedSeat' = allocatedSeat
               /\ allocs' = RemoveAt(allocs, i)]_vars

\* C24 witness: the allocate call of an attempt failed and the slot is empty
C24_Witness ==
    /\ step.op = "allocate-end"
    /\ step.ret = "allocation-failed"
    /\ allocatedSeat = NULL

\* C25: release() on an empty tracker returns a failure, sends no deallocate request
\* and changes no state
C25_ReleaseOnEmpty ==
    [][(allocatedSeat = NULL /\ step'.op = "release")
        => /\ step'.ret = "no-allocation"
           /\ step'.sent = <<>>
           /\ UNCHANGED <<isSearching, searchInterval, isFirstRequest, pollTimers, form,
                          isLoading, allocatedSeat, checks, allocs, releases,
                          countdownInterval, countdownTimers, status, session,
                          secondsLeft>>]_vars

\* C25 witness: release() was called on an empty tracker
C25_Witness ==
    step.op = "release" /\ step.ret = "no-allocation" /\ allocatedSeat = NULL

\* C26: when the deallocate request of a release succeeds the slot is empty
\* afterwards; when it fails the slot is unchanged and the user is alerted that the
\* release failed
C26_ReleaseClearsIffSucceeded ==
    [][(step'.op = "deallocate-response") =>
       \A i \in 1..Len(releases), ok \in BOOLEAN :
           Set(releaseClickAfterAwait(Begin("deallocate-response"), i, ok))
           => IF ok
              THEN /\ allocatedSeat' = NULL
                   /\ step'.ret = "released"
              ELSE /\ allocatedSeat' = allocatedSeat
                   /\ step'.ret = "release-failed"
                   /\ SeqContains(step'.notes, "alert")]_vars

\* C26 witness: a release failed and the Allocation is still stored
C26_Witness ==
    /\ step.op = "deallocate-response"
    /\ step.ret = "release-failed"
    /\ allocatedSeat # NULL

\* C27: the countdown starts at m * 60 seconds for a hold of m minutes and is updated
\* once at once; every tick before zero takes one second off and changes nothing
\* else; the tick at zero empties the slot, surfaces the expiry, stops the countdown
\* and sends no request
C27_CountdownExpiry ==
    [][/\ (step'.op = "allocate-response" /\ step'.ret = "allocated")
            => /\ secondsLeft' = allocatedSeat'.lockFor * 60 - 1
               /\ countdownInterval' \in countdownTimers'
       /\ (step'.op = "countdown-tick" /\ secondsLeft > 0)
            => /\ secondsLeft' = secondsLeft - 1
               /\ step'.notes = <<>>
               /\ step'.sent = <<>>
               /\ UNCHANGED <<allocatedSeat, countdownInterval, countdownTimers,
                              isSearching, pollTimers, checks, allocs, releases, status>>
       /\ (step'.op = "countdown-tick" /\ secondsLeft <= 0)
            => /\ allocatedSeat' = NULL
               /\ SeqContains(step'.notes, "log:expired")
               /\ countdownInterval' = NoHandle
               /\ countdownTimers' = {}
               /\ step'.sent = <<>>
               /\ UNCHANGED <<checks, allocs, releases>>]_vars

\* C27 witness: the hold has expired and the slot is empty
C27_Witness ==
    /\ step.op = "countdown-tick"
    /\ SeqContains(step.notes, "log:expired")
    /\ allocatedSeat = NULL
    /\ countdownTimers = {}

\* the locator was called and returned a seat
LocatorReturnedSeat ==
    /\ callResult # NULL
    /\ callArgs.fn = "findFirstAvailableSeat"
    /\ callResult.returned # NULL

\* C23: a seat the locator returns is not in the held set of its car, and is the
\* seat of an item of that car that is saleable, has a seat number and has a
\* cabin-class id of a selected class
C23_LocatedSeatIsFree ==
    LocatorReturnedSeat =>
        LET seat == callResult.returned
            cars == callArgs.seatMaps
            selectedIds == {CabinClassId(callArgs.selectedCabinClasses[n]) :
                               n \in 1..Len(callArgs.selectedCabinClasses)}
        IN  /\ seat.seatNumber # ""
            /\ seat.cabinClassId \in selectedIds
            /\ \E j \in 1..Len(cars) :
                   /\ cars[j].trainCarId = seat.trainCarId
                   /\ cars[j].hasTemplate
                   /\ \A h \in 1..Len(cars[j].allocationSeats) :
                          cars[j].allocationSeats[h] # seat.seatNumber
                   /\ \E k \in 1..Len(cars[j].items) :
                          /\ cars[j].items[k].seatNumber = seat.seatNumber
                          /\ cars[j].items[k].saleable
                          /\ cars[j].items[k].cabinClassId = seat.cabinClassId

\* C23 witness: 5A is saleable in a selected class but held in car 11, and the
\* locator returned 5A of car 12
C23_Witness ==
    /\ LocatorReturnedSeat
    /\ callResult.returned.trainCarId = 12
    /\ callArgs.seatMaps[1].allocationSeats = <<"5A">>
    /\ callArgs.seatMaps[1].items[1] = SeatItem(TRUE, 2, "5A")

\* C28: checkSeatMap and allocateSeat never throw and return null on a non-success
\* status or a transport error; deallocateSeat and checkAvailability throw on them
C28_ClientFailureKinds ==
    (callResult # NULL /\ callArgs.fn \in ClientOps) =>
        LET failed == callArgs.outcome.kind = "network-error"
                      \/ callArgs.outcome.status \notin 200..299
        IN  /\ callArgs.fn \in {"checkSeatMap", "allocateSeat"}
                => /\ ~callResult.threw
                   /\ failed => callResult.value = NULL
            /\ callArgs.fn \in {"deallocateSeat", "checkAvailability"}
                => (failed => callResult.threw)

\* C28 witness: deallocateSeat threw on a status 500
C28_Witness ==
    /\ callResult # NULL
    /\ callArgs.fn = "deallocateSeat"
    /\ callArgs.outcome.status = 500
    /\ callResult.threw

\* C29: for a well-formed date, convertDateToAPI gives day, month, year of the same
\* date in that order, and convertDateFromAPI of it gives the date back
C29_DateRoundTrip ==
    (callResult # NULL /\ callArgs.fn = "convertDate" /\ callArgs.date # <<>>) =>
        /\ callResult.api = <<callArgs.date[3], callArgs.date[2], callArgs.date[1]>>
        /\ callResult.back = callArgs.date

\* C29 witness: 2025-03-05 was converted to 05-03-2025 and back
C29_Witness ==
    /\ callResult # NULL
    /\ callArgs.fn = "convertDate"
    /\ callArgs.date = <<2025, 3, 5>>
    /\ callResult.api = <<5, 3, 2025>>
    /\ callResult.back = <<2025, 3, 5>>

\* C30: a tick that finds the client's request-in-progress flag set changes no state,
\* sends no request and emits no status or error notification
C30_BusyTickSkipped ==
    [][(isLoading /\ step'.op = "tick")
        => /\ UNCHANGED <<isSearching, searchInterval, isFirstRequest, pollTimers, form,
                          isLoading, allocatedSeat, checks, allocs, releases,
                          countdownInterval, countdownTimers, status, session,
                          secondsLeft>>
           /\ step'.notes = <<>>
           /\ step'.sent = <<>>
           /\ step'.ret = "none"]_vars

\* C30 witness: a tick of a Searching session was skipped while the earlier poll was
\* in its anti-bot sleep
C30_Witness ==
    /\ step.op = "tick"
    /\ step.notes = <<>>
    /\ isSearching
    /\ isLoading
    /\ Len(checks) = 1
    /\ checks[1].pc = "sleep"

\* item k of car j of the seat maps given to the locator is eligible: the car has a
\* template, the item is saleable, of a selected class, numbered, and its number is
\* not among the held seats of car j
LocatorEligible(j, k) ==
    LET car == callArgs.seatMaps[j]
        item == car.items[k]
    IN  /\ car.hasTemplate
        /\ item.saleable
        /\ \E n \in 1..Len(callArgs.selectedCabinClasses) :
               CabinClassId(callArgs.selectedCabinClasses[n]) = item.cabinClassId
        /\ item.seatNumber # ""
        /\ \A h \in 1..Len(car.allocationSeats) : car.allocationSeats[h] # item.seatNumber

\* the positions (car, item) of the seat maps given to the locator
LocatorPositions ==
    {<<j, k>> : j \in 1..Len(callArgs.seatMaps), k \in 1..2} \cap
    {p \in (1..3) \X (1..2) : p[2] <= Len(callArgs.seatMaps[p[1]].items)}

\* C31: the locator returns the seat of the first eligible item in the order of the
\* seat-map array and then of the car's template items, and null exactly when no
\* car has an eligible item; a number held in one car does not block another car
C31_FirstEligibleInServerOrder ==
    (callResult # NULL /\ callArgs.fn = "findFirstAvailableSeat") =>
        LET eligible == {p \in LocatorPositions : LocatorEligible(p[1], p[2])}
            seat == callResult.returned
        IN  /\ (seat = NULL) <=> (eligible = {})
            /\ seat # NULL =>
                   \E p \in eligible :
                       /\ \A q \in eligible :
                              p[1] < q[1] \/ (p[1] = q[1] /\ p[2] <= q[2])
                       /\ seat.trainCarId = callArgs.seatMaps[p[1]].trainCarId
                       /\ seat.seatNumber = callArgs.seatMaps[p[1]].items[p[2]].seatNumber
                       /\ seat.cabinClassId =
                              callArgs.seatMaps[p[1]].items[p[2]].cabinClassId

\* C31 witness: car 11 has an item that is not saleable first and 5B free second,
\* car 12 has 5A free, and the locator returned 5B of car 11
C31_Witness ==
    /\ LocatorReturnedSeat
    /\ Len(callArgs.seatMaps) = 2
    /\ ~callArgs.seatMaps[1].items[1].saleable
    /\ callArgs.seatMaps[1].items[2] = SeatItem(TRUE, 2, "5B")
    /\ callArgs.seatMaps[2].hasTemplate
    /\ callArgs.seatMaps[2].allocationSeats = <<>>
    /\ callResult.returned.trainCarId = 11
    /\ callResult.returned.seatNumber = "5B"

\* C32: when the allocate request of an attempt returns an allocation id, the tracker
\* stores the Allocation built from the attempt's train, the located seat and that
\* id, with the server's hold duration or 10 minutes when there is none, and
\* returns success with the stored Allocation as seatInfo
C32_StoresAllocationOnSuccess ==
    [][(step'.op = "allocate-end")
        => \A i \in 1..Len(allocs), allocationResult \in AllocateOutcomes \ {NULL} :
             (/\ allocs[i].pc = "allocate"
              /\ allocationResult.allocationId # 0
              /\ Set(allocateAfterResult(Begin("allocate-end"), i, allocationResult)))
             => LET stored ==
                        [trainName |-> allocs[i].trainInfo.name,
                         trainId |-> allocs[i].trainInfo.trainId,
                         seatNumber |-> allocs[i].seat.seatNumber,
                         trainCarId |-> allocs[i].seat.trainCarId,
                         allocationId |-> allocationResult.allocationId,
                         lockFor |-> IF allocationResult.lockFor = 0 THEN 10
                                     ELSE allocationResult.lockFor]
                IN  /\ allocatedSeat' = stored
                    /\ callResult' = [success |-> TRUE, seatInfo |-> stored]
                    /\ allocs' = RemoveAt(allocs, i)]_vars

\* C32 witness: an attempt ended with allocation id 1 and no hold duration from the
\* server, and the stored Allocation holds for 10 minutes and was returned
C32_Witness ==
    /\ step.op = "allocate-end"
    /\ callResult # NULL
    /\ callResult.success
    /\ callResult.seatInfo = allocatedSeat
    /\ allocatedSeat.allocationId = 1
    /\ allocatedSeat.lockFor = 10
    /\ allocatedSeat.seatNumber = "5B"

\* C33: a checkAvailability call that is not refused sets the in-flight flag; without
\* skipDelay it sends nothing and sleeps for a delay between the minimum and the
\* maximum anti-bot delay, and the request goes out when the sleep ends, the flag
\* still set; with skipDelay the request goes out in the call, without a delay
C33_DelayBeforeRequest ==
    [][/\ (step'.op = "checkAvailability" /\ ~isLoading)
            => /\ isLoading'
               /\ Len(checks') = Len(checks) + 1
               /\ LET call == checks'[Len(checks')]
                  IN  IF call.skipDelay
                      THEN /\ call.pc = "fetch"
                           /\ step'.sent = <<"availability">>
                           /\ callResult' = NULL
                      ELSE /\ call.pc = "sleep"
                           /\ step'.sent = <<>>
                           /\ callResult' # NULL
                           /\ MIN_ANTI_BOT_DELAY <= callResult'.randomDelay
                           /\ callResult'.randomDelay <= MAX_ANTI_BOT_DELAY
       /\ (step'.op = "sleep-done")
            => /\ isLoading /\ isLoading'
               /\ step'.sent = <<"availability">>
               /\ \E i \in 1..Len(checks) :
                      /\ checks[i].pc = "sleep"
                      /\ checks' = [checks EXCEPT ![i].pc = "fetch"]]_vars

\* C33 witness: a call without skipDelay is in its sleep of 7687 ms, the flag set and
\* nothing sent
C33_Witness ==
    /\ step.op = "checkAvailability"
    /\ step.sent = <<>>
    /\ isLoading
    /\ Len(checks) = 1
    /\ checks[1].pc = "sleep"
    /\ callResult # NULL
    /\ callResult.randomDelay = 7687

RECURSIVE SumSelectedEntries(_, _)
\* the sum of availabilityCount over the entries of the response that belong to a
\* selected class
SumSelectedEntries(entries, args) ==
    IF entries = <<>> THEN 0
    ELSE LET entry == Head(entries)
             counted == /\ entry.hasCabinClass
                        /\ \E n \in 1..Len(args.selectedCabinClasses) :
                               CabinClassId(args.selectedCabinClasses[n])
                                   = entry.cabinClassId
         IN  (IF counted THEN entry.availabilityCount ELSE 0)
             + SumSelectedEntries(Tail(entries), args)

RECURSIVE SumOverReturned(_, _)
\* that sum over the trains of the response that the filter returned
SumOverReturned(returned, args) ==
    IF returned = <<>> THEN 0
    ELSE LET trains == Flatten(args.data.trainAvailabilities)
             train == trains[CHOOSE j \in 1..Len(trains) :
                                trains[j].id = Head(returned).trainId]
         IN  SumSelectedEntries(train.cabinClassAvailabilities, args)
             + SumOverReturned(Tail(returned), args)

\* C34: the filter's total of selected seats is the sum of availability over the
\* selected-class entries of the trains it returns; other classes are not counted
C34_TotalIsSelectedSum ==
    (filterResult # NULL) =>
        filterResult.totalSeats = SumOverReturned(filterResult.trains, filterArgs)

\* C34 witness: one train inside the window with economy 3 and business 5, economy
\* selected: found, one candidate, total 3
C34_Witness ==
    /\ filterResult # NULL
    /\ filterResult.found
    /\ Len(filterResult.trains) = 1
    /\ filterResult.trains[1].trainId = 1
    /\ filterResult.totalSeats = 3
    /\ filterArgs.data.trainAvailabilities[1][1].cabinClassAvailabilities
           = <<Cabin(2, 3), Cabin(1, 5)>>
    /\ filterArgs.selectedCabinClasses = <<"ECONOMY">>

\* C39: when the filter returns found = true, every train of its list has a selected
\* class with availability > 0, the sum the found handler recomputes over the list is
\* positive, and the found handler given that result does not take its sold-out
\* branch
C39_FoundMeansSeats ==
    (filterResult # NULL /\ filterResult.found) =>
        /\ \A k \in 1..Len(filterResult.trains) :
               \E c \in 1..Len(filterResult.trains[k].cabinClasses) :
                   /\ filterResult.trains[k].cabinClasses[c].isSelected
                   /\ filterResult.trains[k].cabinClasses[c].availability > 0
        /\ actualAvailableSeats(filterResult.trains) > 0
        /\ LET after == handleTicketsFound(Begin("poll-response"), filterResult,
                                           getSearchParams(FormOK1))
           IN  /\ SeqContains(after.step.notes, "found")
               /\ ~SeqContains(after.step.notes, "sold-out")
               /\ ~SeqContains(after.step.notes, "log:sold-out")

\* C39 witness: the filter returned found = true with both trains of the response,
\* the first with business seats that are not selected beside its economy seats
C39_Witness ==
    /\ filterResult # NULL
    /\ filterResult.found
    /\ Len(filterResult.trains) = 2
    /\ Len(filterResult.trains[1].cabinClasses) = 2
    /\ ~filterResult.trains[1].cabinClasses[2].isSelected
    /\ filterResult.trains[1].cabinClasses[2].availability = 5

\* C35: the response of a poll that arrives while the session is Stopped emits no
\* found or still-searching notification, starts no allocation attempt and sends
\* nothing
C35_StalePollIgnored ==
    [][(~isSearching /\ step'.op = "poll-response")
        => /\ allocs' = allocs
           /\ step'.sent = <<>>
           /\ ~SeqContains(step'.notes, "found")
           /\ ~SeqContains(step'.notes, "no-seat")]_vars

\* C36: at most one recurring poll timer is armed at any time
C36_AtMostOnePollTimer ==
    Cardinality(pollTimers) <= 1

\* C37: a release that completes while the slot holds an Allocation other than the
\* one it released leaves that Allocation stored
C37_ReleaseKeepsNewerAllocation ==
    [][(step'.op = "deallocate-response")
        => \A i \in 1..Len(releases) :
             (/\ releases' = RemoveAt(releases, i)
              /\ allocatedSeat # NULL
              /\ allocatedSeat.allocationId # releases[i].allocationId)
             => allocatedSeat' = allocatedSeat]_vars

\* C38: the countdown timer is armed exactly when the Allocation slot is populated
C38_CountdownIffAllocation ==
    (countdownTimers # {}) <=> (allocatedSeat # NULL)

\* C38 witness: start() emptied the slot and stopped the countdown of an Allocation
\* whose release is still pending
C38_Witness ==
    /\ step.op = "start"
    /\ isSearching
    /\ releases # <<>>
    /\ allocatedSeat = NULL
    /\ countdownTimers = {}

\* a poll response surfaced found and the session is Stopped
FoundStopped ==
    /\ ~isSearching
    /\ step.op = "poll-response"
    /\ SeqContains(step.notes, "found")

\* C40: if from some point on no availability request fails or answers without a
\* seat in the window, a Searching session eventually is Stopped by a poll that
\* surfaced found, and a set in-flight flag eventually is false again
C40_SearchEventuallyFinds ==
    (<>[][~PollWithoutSeat]_vars)
        => /\ isSearching ~> FoundStopped
           /\ isLoading ~> ~isLoading

\* C40 witness: a poll of the session surfaced found, the session is Stopped, no poll
\* timer is armed and the in-flight flag is false
C40_Witness ==
    /\ FoundStopped
    /\ ~isLoading
    /\ pollTimers = {}
    /\ session.called

====
